---- MODULE Spec2Model ----
(***************************************************************************)
(* A model of pa-types' CIGAR engine (src/src/cigar.rs) and of its cost    *)
(* model (src/src/cost.rs).                                                *)
(*                                                                         *)
(* A Cigar is a sequence of elements [op, cnt]; a sequence (text, pattern) *)
(* is a sequence of bytes, here one-character strings; a Pos is a pair     *)
(* <<text_pos, pattern_pos>>; a string is a sequence of one-character      *)
(* strings.  Results of fallible operations are records with a "kind":     *)
(* "Ok", "Err" (a returned Err value) or "Panic" (panic!, expect, unwrap,  *)
(* an out-of-bounds index).                                                *)
(***************************************************************************)
EXTENDS Integers, Sequences, FiniteSets

VARIABLES
    c,        \* the Cigar the operations act on (Cigar.ops)
    text,     \* the reference sequence
    pattern,  \* the query sequence
    cm,       \* the CostModel
    path,     \* a Path, the input of from_path
    walk,     \* output of to_path
    trace,    \* output of to_path_with_costs
    res,      \* output of verify
    str,      \* a CIGAR string: output of to_string, input of from_string
    made,     \* output of a constructor that may fail: from_string, from_path,
              \* resolve_matches
    sm,       \* the ScoreModel, output of ScoreModel::from_costs
    gcost,    \* output of ScoreModel::global_cost
    pairs,    \* output of to_char_pairs
    call      \* the last operation called, with its arguments

vars == <<c, text, pattern, cm, path, walk, trace, res, str, made, sm, gcost, pairs, call>>

(***************************************************************************)
(* Bounds of the model.                                                    *)
(***************************************************************************)
MaxTotal == 4      \* builder: cap on the total count held by the Cigar
MaxPushCnt == 2    \* builder: largest count handed to push_elem / push_matches
MaxStream == 3     \* builder: longest op stream handed to from_ops
MaxBases == 3      \* verify / trace: most bases (total count) of an input Cigar
MaxSeqLen == 3     \* verify, from_path: longest text / pattern
MaxSteps == 3      \* from_path: most steps of an input path
MaxStrLen == 4     \* from_string: longest input string
MaxStrElems == 2   \* to_string: most elements of a Cigar that is printed

I32Max == 2147483647

Ops == {"Match", "Sub", "Del", "Ins"}
Alphabet == {"a", "b"}

Elem(op, cnt) == [op |-> op, cnt |-> cnt]

\* All sequences over S of length at most n.
SeqsUpTo(S, n) == UNION {[1..k -> S] : k \in 0..n}

Last(s) == s[Len(s)]
Front(s) == SubSeq(s, 1, Len(s) - 1)

NoCall == [name |-> "new", op |-> "-", cnt |-> 0]
Called(name) == [name |-> name, op |-> "-", cnt |-> 0]

NoRes == [kind |-> "None"]
Ok(cost) == [kind |-> "Ok", cost |-> cost]
Err(msg) == [kind |-> "Err", msg |-> msg]
OkCigar(ops) == [kind |-> "Ok", ops |-> ops]
Panic(msg) == [kind |-> "Panic", msg |-> msg]

MatchMismatch == "Expected match but found substitution."
SubEquality == "Expected substitution but found match."
LengthMismatch == "Wrong alignment length."

(***************************************************************************)
(* Pos arithmetic.                                                         *)
(***************************************************************************)
PosAdd(p, q) == <<p[1] + q[1], p[2] + q[2]>>
PosSub(p, q) == <<p[1] - q[1], p[2] - q[2]>>
PosMul(p, k) == <<p[1] * k, p[2] * k>>

(***************************************************************************)
(* CigarOp.                                                                *)
(***************************************************************************)
to_char(op) ==
    CASE op = "Match" -> "="
      [] op = "Sub" -> "X"
      [] op = "Ins" -> "I"
      [] op = "Del" -> "D"

delta_gaps_swapped(op) ==
    CASE op \in {"Match", "Sub"} -> <<1, 1>>
      [] op = "Del" -> <<0, 1>>
      [] op = "Ins" -> <<1, 0>>

delta(op) ==
    CASE op \in {"Match", "Sub"} -> <<1, 1>>
      [] op = "Del" -> <<1, 0>>
      [] op = "Ins" -> <<0, 1>>

from_delta_swapped(d) ==
    CASE d = <<0, 1>> -> "Del"
      [] d = <<1, 0>> -> "Ins"
      [] d = <<1, 1>> -> "Match"
      [] OTHER -> "Invalid"

\* "Invalid" stands for panic!("Invalid delta").
from_delta(d) ==
    CASE d = <<0, 1>> -> "Ins"
      [] d = <<1, 0>> -> "Del"
      [] d = <<1, 1>> -> "Match"
      [] OTHER -> "Invalid"

\* From<u8> for CigarOp; "Invalid" stands for panic!("Invalid CigarOp").
FromU8(b) ==
    CASE b \in {"=", "M"} -> "Match"
      [] b = "X" -> "Sub"
      [] b = "I" -> "Ins"
      [] b = "D" -> "Del"
      [] OTHER -> "Invalid"

(***************************************************************************)
(* CostModel.                                                              *)
(***************************************************************************)
CostModel(sub, open, extend) == [sub |-> sub, open |-> open, extend |-> extend]
unit == CostModel(1, 0, 1)
ins_open_per_base(m, len) == len * m.open + len * m.extend

ins(m, len) == m.open + len * m.extend
del(m, len) == m.open + len * m.extend

\* The cost models the checks run over: unit, linear and affine ones.
CostModels == {unit, CostModel(2, 0, 3), CostModel(3, 5, 2)}

(***************************************************************************)
(* The incremental builders.                                               *)
(***************************************************************************)
push_elem_overwrite(ops, e) ==
    IF ops # <<>> /\ Last(ops).op = e.op
    THEN [ops EXCEPT ![Len(ops)].cnt = e.cnt]
    ELSE Append(ops, e)

push_elem(ops, e) ==
    IF ops # <<>> /\ Last(ops).op = e.op
    THEN [ops EXCEPT ![Len(ops)].cnt = @ + e.cnt]
    ELSE Append(ops, e)

push_always_appends(ops, op) == Append(ops, Elem(op, 1))

push(ops, op) ==
    IF ops # <<>> /\ Last(ops).op = op
    THEN [ops EXCEPT ![Len(ops)].cnt = @ + 1]
    ELSE Append(ops, Elem(op, 1))

push_matches(ops, cnt) ==
    IF ops # <<>> /\ Last(ops).op = "Match"
    THEN [ops EXCEPT ![Len(ops)].cnt = @ + cnt]
    ELSE Append(ops, Elem("Match", cnt))

\* chunk_by: the length of the maximal run of s[1] at the head of s.
RECURSIVE HeadRun(_)
HeadRun(s) ==
    IF Len(s) >= 2 /\ s[2] = s[1] THEN 1 + HeadRun(Tail(s)) ELSE 1

RECURSIVE from_ops(_)
from_ops(s) ==
    IF s = <<>> THEN <<>>
    ELSE LET n == HeadRun(s)
         IN <<Elem(s[1], n)>> \o from_ops(SubSeq(s, n + 1, Len(s)))

clear(ops) == <<>>

reverse(ops) == [i \in 1..Len(ops) |-> ops[Len(ops) + 1 - i]]

\* The run-coalescing invariant of a Cigar.
NoAdjacentSameOp(ops) == \A i \in 1..(Len(ops) - 1) : ops[i].op # ops[i + 1].op

RECURSIVE Total(_)
Total(ops) == IF ops = <<>> THEN 0 ELSE ops[1].cnt + Total(Tail(ops))

(***************************************************************************)
(* The builder as a state machine: a Cigar assembled by any sequence of    *)
(* builder calls.                                                          *)
(***************************************************************************)
Idle ==
    /\ text = <<>> /\ pattern = <<>> /\ cm = unit
    /\ path = <<>> /\ walk = <<>> /\ trace = <<>> /\ res = NoRes
    /\ str = <<>> /\ made = NoRes
    /\ sm = NoRes /\ gcost = NoRes /\ pairs = NoRes

Init ==
    /\ c = <<>>
    /\ call = NoCall
    /\ Idle

Rest == <<text, pattern, cm, path, walk, trace, res, str, made, sm, gcost, pairs>>

FromOps ==
    \E s \in SeqsUpTo(Ops, MaxStream) :
        /\ c' = from_ops(s)
        /\ call' = Called("from_ops")
        /\ UNCHANGED Rest

Push ==
    \E op \in Ops :
        /\ Total(c) + 1 <= MaxTotal
        /\ c' = push(c, op)
        /\ call' = [name |-> "push", op |-> op, cnt |-> 1]
        /\ UNCHANGED Rest

PushElem ==
    \E op \in Ops, cnt \in 1..MaxPushCnt :
        /\ Total(c) + cnt <= MaxTotal
        /\ c' = push_elem(c, Elem(op, cnt))
        /\ call' = [name |-> "push_elem", op |-> op, cnt |-> cnt]
        /\ UNCHANGED Rest

PushMatches ==
    \E cnt \in 1..MaxPushCnt :
        /\ Total(c) + cnt <= MaxTotal
        /\ c' = push_matches(c, cnt)
        /\ call' = [name |-> "push_matches", op |-> "Match", cnt |-> cnt]
        /\ UNCHANGED Rest

Clear ==
    /\ c' = clear(c)
    /\ call' = Called("clear")
    /\ UNCHANGED Rest

Reverse ==
    /\ c' = reverse(c)
    /\ call' = Called("reverse")
    /\ UNCHANGED Rest

Next == FromOps \/ Push \/ PushElem \/ PushMatches \/ Clear \/ Reverse

Spec == Init /\ [][Next]_vars

(***************************************************************************)
(* verify.                                                                 *)
(***************************************************************************)
\* slice::get: Some(byte) as <<byte>>, None as <<>>.
Get(s, i) == IF i >= 0 /\ i < Len(s) THEN <<s[i + 1]>> ELSE <<>>

\* The Match arm's loop: TRUE when it returns Err.
RECURSIVE MatchRunFails(_, _, _, _)
MatchRunFails(k, pos, t, p) ==
    IF k = 0 THEN FALSE
    ELSE IF Get(t, pos[1]) # Get(p, pos[2]) THEN TRUE
    ELSE MatchRunFails(k - 1, pos, t, p)

\* The Sub arm's loop: -1 when it returns Err, else the cost after the run.
RECURSIVE SubRunCost(_, _, _, _, _, _)
SubRunCost(k, pos, cost, m, t, p) ==
    IF k = 0 THEN cost
    ELSE IF Get(t, pos[1]) = Get(p, pos[2]) THEN -1
    ELSE SubRunCost(k - 1, pos, cost + m.sub, m, t, p)

VerifyEndNoCheck(pos, cost, t, p) == Ok(cost)

\* The check after the loop.
VerifyEnd(pos, cost, t, p) ==
    IF pos # <<Len(t), Len(p)>> THEN Err(LengthMismatch) ELSE Ok(cost)

\* The loop over the elements, from element i on.
RECURSIVE VerifyFrom(_, _, _, _, _, _, _)
VerifyFrom(ops, i, pos0, cost, m, t, p) ==
    IF i > Len(ops) THEN VerifyEnd(pos0, cost, t, p)
    ELSE
        LET op == ops[i].op
            cnt == ops[i].cnt
            pos == PosAdd(pos0, PosMul(delta(op), cnt))
        IN CASE op = "Match" ->
                    IF MatchRunFails(cnt, pos, t, p) THEN Err(MatchMismatch)
                    ELSE VerifyFrom(ops, i + 1, pos, cost, m, t, p)
             [] op = "Sub" ->
                    LET cost2 == SubRunCost(cnt, pos, cost, m, t, p)
                    IN IF cost2 = -1 THEN Err(SubEquality)
                       ELSE VerifyFrom(ops, i + 1, pos, cost2, m, t, p)
             [] op = "Ins" ->
                    VerifyFrom(ops, i + 1, pos, cost + m.open + cnt * m.extend, m, t, p)
             [] op = "Del" ->
                    VerifyFrom(ops, i + 1, pos, cost + m.open + cnt * m.extend, m, t, p)

verify(ops, m, t, p) == VerifyFrom(ops, 1, <<0, 0>>, 0, m, t, p)

(***************************************************************************)
(* verify on any Cigar of valid elements against any two sequences.        *)
(***************************************************************************)
\* Cigars of elements with count >= 1 holding at most n bases in total.
RECURSIVE CigarsUpTo(_)
CigarsUpTo(n) ==
    {<<>>} \cup
    UNION {{<<Elem(op, k)>> \o r : op \in Ops, r \in CigarsUpTo(n - k)} : k \in 1..n}

InitVerify ==
    /\ c \in CigarsUpTo(MaxBases)
    /\ text \in SeqsUpTo(Alphabet, MaxSeqLen)
    /\ pattern \in SeqsUpTo(Alphabet, MaxSeqLen)
    /\ cm \in CostModels
    /\ path = <<>> /\ walk = <<>> /\ trace = <<>> /\ res = NoRes
    /\ str = <<>> /\ made = NoRes
    /\ sm = NoRes /\ gcost = NoRes /\ pairs = NoRes
    /\ call = Called("cigar")

Verify ==
    /\ call.name \in {"cigar", "to_path"}
    /\ res' = verify(c, cm, text, pattern)
    /\ call' = Called("verify")
    /\ UNCHANGED <<c, text, pattern, cm, path, walk, trace, str, made, sm, gcost, pairs>>

SpecVerify == InitVerify /\ [][Verify]_vars

(***************************************************************************)
(* What a Cigar says about two sequences, base by base.                    *)
(***************************************************************************)
\* The op of every base, in order.
RECURSIVE Flat(_)
Flat(ops) ==
    IF ops = <<>> THEN <<>>
    ELSE [k \in 1..ops[1].cnt |-> ops[1].op] \o Flat(Tail(ops))

\* The position after n bases, replaying their deltas from (0,0).
RECURSIVE PosAfter(_, _)
PosAfter(f, n) ==
    IF n = 0 THEN <<0, 0>> ELSE PosAdd(PosAfter(f, n - 1), delta(f[n]))

EndPos(ops) == PosAfter(Flat(ops), Len(Flat(ops)))
Target(t, p) == <<Len(t), Len(p)>>

\* Base n of the current Cigar: its op, its own position, its bytes.
BaseOp(n) == Flat(c)[n]
BasePos(n) == PosAfter(Flat(c), n - 1)
BaseInRange(n) == BasePos(n)[1] < Len(text) /\ BasePos(n)[2] < Len(pattern)
BaseEqual(n) == BaseInRange(n) /\ text[BasePos(n)[1] + 1] = pattern[BasePos(n)[2] + 1]
BaseDiffer(n) == BaseInRange(n) /\ text[BasePos(n)[1] + 1] # pattern[BasePos(n)[2] + 1]
BaseWrong(n) ==
    \/ BaseOp(n) = "Match" /\ ~BaseEqual(n)
    \/ BaseOp(n) = "Sub" /\ ~BaseDiffer(n)
Bases == 1..Len(Flat(c))
SubCount == Cardinality({n \in Bases : BaseOp(n) = "Sub"})

\* The Cigar correctly describes text and pattern.
Describes ==
    /\ \A n \in Bases : ~BaseWrong(n)
    /\ EndPos(c) = Target(text, pattern)

Verified == res # NoRes

(***************************************************************************)
(* C1.  verify fails with the match-mismatch error whenever a base of a    *)
(* Match run has differing bytes at its own position (no earlier base      *)
(* failing first), and never returns Ok then.                              *)
(***************************************************************************)
C1_MatchMismatchRejected ==
    Verified =>
        \A n \in Bases :
            (BaseOp(n) = "Match" /\ BaseDiffer(n)) =>
                /\ res.kind # "Ok"
                /\ (\A k \in 1..(n - 1) : ~BaseWrong(k)) => res = Err(MatchMismatch)

(***************************************************************************)
(* C2.  verify fails with the substitution-equality error for a Sub run    *)
(* if and only if a base of that run has equal bytes at its own position;  *)
(* a Cigar of Sub runs whose bases all differ and that reaches the target  *)
(* returns Ok(cm.sub per base).                                            *)
(***************************************************************************)
C2_SubEqualityIff ==
    Verified =>
        /\ \A n \in Bases :
               (BaseOp(n) = "Sub" /\ BaseEqual(n) /\ \A k \in 1..(n - 1) : ~BaseWrong(k))
                   => res = Err(SubEquality)
        /\ res = Err(SubEquality) => \E n \in Bases : BaseOp(n) = "Sub" /\ ~BaseDiffer(n)
        /\ (Describes /\ \A i \in 1..Len(c) : c[i].op = "Sub")
               => res = Ok(Len(Flat(c)) * cm.sub)

(***************************************************************************)
(* C3.  Cost additivity: on a Cigar that correctly describes text and      *)
(* pattern, verify returns Ok(sub_count * cm.sub) when the Cigar has only  *)
(* Match and Sub elements, and Ok(cm.open + L * cm.extend) when it has one *)
(* Ins run of length L and otherwise only Match elements.                  *)
(***************************************************************************)
OnlyMatchSub == \A i \in 1..Len(c) : c[i].op \in {"Match", "Sub"}
InsRuns == {i \in 1..Len(c) : c[i].op = "Ins"}
OneInsRun ==
    /\ Cardinality(InsRuns) = 1
    /\ \A i \in 1..Len(c) : c[i].op \in {"Match", "Ins"}

C3_CostAdditivity ==
    (Verified /\ Describes) =>
        /\ OnlyMatchSub => res = Ok(SubCount * cm.sub)
        /\ OneInsRun =>
               \A i \in InsRuns : res = Ok(cm.open + c[i].cnt * cm.extend)

(***************************************************************************)
(* C4.  As claimed: whenever the Cigar's deltas do not sum to              *)
(* (len(text), len(pattern)), verify returns the length-mismatch failure.  *)
(***************************************************************************)
C4_AlwaysLengthMismatch ==
    (Verified /\ EndPos(c) # Target(text, pattern)) => res = Err(LengthMismatch)

(***************************************************************************)
(* C4, amended.  Whenever the Cigar's deltas do not sum to                 *)
(* (len(text), len(pattern)), verify returns an Err value, never Ok and    *)
(* never a panic: the length-mismatch failure, unless a Match or Sub run   *)
(* reports a content failure first (so always the length-mismatch failure  *)
(* for a Cigar of Ins and Del runs only).                                  *)
(***************************************************************************)
C4_ErrOnWrongLength ==
    (Verified /\ EndPos(c) # Target(text, pattern)) =>
        /\ res.kind = "Err"
        /\ res.msg \in {LengthMismatch, MatchMismatch, SubEquality}
        /\ res.msg # LengthMismatch => \E i \in 1..Len(c) : c[i].op \in {"Match", "Sub"}

\* A Cigar that runs past the end of the text, answered by the length failure.
C4_Witness ==
    /\ Verified
    /\ EndPos(c)[1] > Len(text)
    /\ res = Err(LengthMismatch)

(***************************************************************************)
(* The textual format: to_string and from_string.                          *)
(***************************************************************************)
DigitChars == <<"0", "1", "2", "3", "4", "5", "6", "7", "8", "9">>
IsDigit(b) == \E d \in 1..10 : DigitChars[d] = b
DigitVal(b) == (CHOOSE d \in 1..10 : DigitChars[d] = b) - 1

RECURSIVE DecimalReversed(_)
DecimalReversed(n) ==
    IF n < 10 THEN <<DigitChars[n + 1]>>
    ELSE <<DigitChars[(n % 10) + 1]>> \o DecimalReversed(n \div 10)

\* Display of a count n >= 0: its decimal digits, most significant first.
RECURSIVE Decimal(_)
Decimal(n) ==
    IF n < 10 THEN <<DigitChars[n + 1]>>
    ELSE Decimal(n \div 10) \o <<DigitChars[(n % 10) + 1]>>

RECURSIVE to_string(_)
to_string(ops) ==
    IF ops = <<>> THEN <<>>
    ELSE Decimal(ops[1].cnt) \o <<to_char(ops[1].op)>> \o to_string(Tail(ops))

\* str::parse::<i32> on digit bytes: the value, or -1 for a parse error
\* (no digits, or a value beyond i32).
RECURSIVE ParseFrom(_, _, _)
ParseFrom(bytes, i, acc) ==
    IF i > Len(bytes) THEN acc
    ELSE LET v == acc * 10 + DigitVal(bytes[i])
         IN IF v > I32Max THEN -1 ELSE ParseFrom(bytes, i + 1, v)

ParseI32(bytes) == IF bytes = <<>> THEN -1 ELSE ParseFrom(bytes, 1, 0)

\* split_inclusive(|b| !b.is_ascii_digit()): every slice ends with its
\* non-digit byte, but for a last slice of digits only; an empty input
\* yields no slice.
RECURSIVE SplitInclusive(_)
SplitInclusive(s) ==
    IF s = <<>> THEN <<>>
    ELSE LET seps == {i \in 1..Len(s) : ~IsDigit(s[i])}
         IN IF seps = {} THEN <<s>>
            ELSE LET i == CHOOSE j \in seps : \A k \in seps : j <= k
                 IN <<SubSeq(s, 1, i)>> \o SplitInclusive(SubSeq(s, i + 1, Len(s)))

\* The loop of from_string over the slices, from slice i on.
RECURSIVE FromSlices(_, _, _)
FromSlices(slices, i, ops) ==
    IF i > Len(slices) THEN OkCigar(ops)
    ELSE
        LET slice == slices[i]
        IN IF slice = <<>> THEN Panic("Cigar string cannot be empty")
           ELSE
               LET op == Last(slice)
                   cnt_bytes == Front(slice)
                   cnt == IF cnt_bytes = <<>> THEN 1 ELSE ParseI32(cnt_bytes)
               IN IF cnt = -1 THEN Panic("Invalid Cigar count")
                  ELSE IF FromU8(op) = "Invalid" THEN Panic("Invalid CigarOp")
                  ELSE FromSlices(slices, i + 1, push_elem(ops, Elem(FromU8(op), cnt)))

from_string(s) == FromSlices(SplitInclusive(s), 1, <<>>)

(***************************************************************************)
(* Printing a Cigar and parsing it back; parsing an input string.          *)
(***************************************************************************)
\* The bytes input strings are made of: digits, the op characters and a
\* byte that is neither.
InputChars == {"0", "1", "2", "=", "M", "X", "I", "D", "Z"}
\* The counts of the Cigars that are printed: one to three digits.
PrintCounts == {0, 1, 2, 10, 24, 105}

InitString ==
    /\ text = <<>> /\ pattern = <<>> /\ cm = unit
    /\ path = <<>> /\ walk = <<>> /\ trace = <<>> /\ res = NoRes
    /\ made = NoRes
    /\ sm = NoRes /\ gcost = NoRes /\ pairs = NoRes
    /\ \/ /\ c \in SeqsUpTo({Elem(op, k) : op \in Ops, k \in PrintCounts}, MaxStrElems)
          /\ str = <<>>
          /\ call = Called("cigar")
       \/ /\ c = <<>>
          /\ str \in SeqsUpTo(InputChars, MaxStrLen)
          /\ call = Called("input")

ToString ==
    /\ call.name = "cigar"
    /\ str' = to_string(c)
    /\ call' = Called("to_string")
    /\ UNCHANGED <<c, text, pattern, cm, path, walk, trace, res, made, sm, gcost, pairs>>

FromString ==
    /\ call.name \in {"input", "to_string"}
    /\ made' = from_string(str)
    /\ call' = Called(IF call.name = "to_string" THEN "round_trip" ELSE "from_string")
    /\ UNCHANGED <<c, text, pattern, cm, path, walk, trace, res, str, sm, gcost, pairs>>

NextString == ToString \/ FromString

SpecString == InitString /\ [][NextString]_vars

OpChars == {"=", "M", "X", "I", "D"}
OpOfChar(b) ==
    CASE b \in {"=", "M"} -> "Match" [] b = "X" -> "Sub"
      [] b = "I" -> "Ins" [] b = "D" -> "Del"

IsTokenString(s) ==
    /\ \A i \in 1..Len(s) : s[i] \in OpChars \/ IsDigit(s[i])
    /\ s # <<>> => Last(s) \in OpChars

RECURSIVE Pow10(_)
Pow10(k) == IF k = 0 THEN 1 ELSE 10 * Pow10(k - 1)
RECURSIVE DigitsValue(_)
DigitsValue(d) ==
    IF d = <<>> THEN 0
    ELSE DigitVal(d[1]) * Pow10(Len(d) - 1) + DigitsValue(Tail(d))

\* The token ending at the op character s[i]: the digits before it reach
\* back to the previous op character.
TokenAt(s, i) ==
    LET before == {j \in 1..(i - 1) : s[j] \in OpChars}
        start == IF before = {} THEN 1
                 ELSE 1 + CHOOSE j \in before : \A k \in before : k <= j
        digits == SubSeq(s, start, i - 1)
    IN Elem(OpOfChar(s[i]), IF digits = <<>> THEN 1 ELSE DigitsValue(digits))

RECURSIVE TokensFrom(_, _)
TokensFrom(s, i) ==
    IF i > Len(s) THEN <<>>
    ELSE IF s[i] \in OpChars THEN <<TokenAt(s, i)>> \o TokensFrom(s, i + 1)
    ELSE TokensFrom(s, i + 1)

Tokens(s) == TokensFrom(s, 1)

\* Adjacent elements of one op merged, from the right.
RECURSIVE MergeRuns(_)
MergeRuns(toks) ==
    IF Len(toks) <= 1 THEN toks
    ELSE LET r == MergeRuns(Tail(toks))
         IN IF toks[1].op = r[1].op
            THEN <<Elem(toks[1].op, toks[1].cnt + r[1].cnt)>> \o Tail(r)
            ELSE <<toks[1]>> \o r

C6_FromStringTokens ==
    (call.name = "from_string" /\ IsTokenString(str))
        => made = OkCigar(MergeRuns(Tokens(str)))

\* A string with a count of two digits and two adjacent tokens of one op,
\* one of them without a count, has been parsed.
C6_Witness ==
    /\ call.name = "from_string"
    /\ IsTokenString(str)
    /\ made.kind = "Ok"
    /\ Len(made.ops) < Len(Tokens(str))
    /\ \E i \in 1..Len(Tokens(str)) : Tokens(str)[i].cnt >= 10
    /\ \E i \in 2..Len(str) : str[i] \in OpChars /\ str[i - 1] \in OpChars

(***************************************************************************)
(* C8.  from_string on the empty string is a fatal failure (a panic): it   *)
(* returns no Cigar.                                                       *)
(***************************************************************************)
C8_EmptyStringPanics ==
    (call.name = "from_string" /\ str = <<>>) => made.kind = "Panic"

(***************************************************************************)
(* Cigar -> Path, Cigar -> cost trace.                                     *)
(***************************************************************************)
\* The inner loop of to_path: k more steps of delta d from pos.
RECURSIVE Steps(_, _, _)
Steps(pos, d, k) ==
    IF k <= 0 THEN <<>>
    ELSE <<PosAdd(pos, d)>> \o Steps(PosAdd(pos, d), d, k - 1)

RECURSIVE ToPathFrom(_, _, _)
ToPathFrom(ops, i, pos) ==
    IF i > Len(ops) THEN <<>>
    ELSE LET run == Steps(pos, delta(ops[i].op), ops[i].cnt)
         IN run \o ToPathFrom(ops, i + 1, IF run = <<>> THEN pos ELSE Last(run))

to_path(ops) == <<<<0, 0>>>> \o ToPathFrom(ops, 1, <<0, 0>>)

At(pos, cost) == [pos |-> pos, cost |-> cost]

\* The Match arm's loop (add = 0) and the Sub arm's loop (add = cm.sub).
RECURSIVE BaseSteps(_, _, _, _, _)
BaseSteps(pos, d, cost, add, k) ==
    IF k <= 0 THEN <<>>
    ELSE <<At(PosAdd(pos, d), cost + add)>>
             \o BaseSteps(PosAdd(pos, d), d, cost + add, add, k - 1)

\* The Ins arm's loop, for len in len..=cnt.
RECURSIVE InsSteps(_, _, _, _, _, _)
InsSteps(pos, d, cost, m, len, cnt) ==
    IF len > cnt THEN <<>>
    ELSE <<At(PosAdd(pos, d), cost + ins(m, len))>>
             \o InsSteps(PosAdd(pos, d), d, cost, m, len + 1, cnt)

\* The Del arm's loop, for len in len..=cnt.
RECURSIVE DelSteps(_, _, _, _, _, _)
DelSteps(pos, d, cost, m, len, cnt) ==
    IF len > cnt THEN <<>>
    ELSE <<At(PosAdd(pos, d), cost + del(m, len))>>
             \o DelSteps(PosAdd(pos, d), d, cost, m, len + 1, cnt)

RECURSIVE TraceFrom(_, _, _, _, _)
TraceFrom(ops, i, pos, cost, m) ==
    IF i > Len(ops) THEN <<>>
    ELSE
        LET op == ops[i].op
            cnt == ops[i].cnt
            run == CASE op = "Match" -> BaseSteps(pos, delta(op), cost, 0, cnt)
                     [] op = "Sub" -> BaseSteps(pos, delta(op), cost, m.sub, cnt)
                     [] op = "Ins" -> InsSteps(pos, delta(op), cost, m, 1, cnt)
                     [] op = "Del" -> DelSteps(pos, delta(op), cost, m, 1, cnt)
            pos2 == IF run = <<>> THEN pos ELSE Last(run).pos
            cost2 == CASE op = "Match" -> cost
                       [] op = "Sub" -> IF run = <<>> THEN cost ELSE Last(run).cost
                       [] op = "Ins" -> cost + ins(m, cnt)
                       [] op = "Del" -> cost + del(m, cnt)
        IN run \o TraceFrom(ops, i + 1, pos2, cost2, m)

to_path_with_costs(ops, m) ==
    <<At(<<0, 0>>, 0)>> \o TraceFrom(ops, 1, <<0, 0>>, 0, m)

ToPath ==
    /\ call.name \in {"cigar", "from_path"}
    /\ walk' = to_path(c)
    /\ call' = Called("to_path")
    /\ UNCHANGED <<c, text, pattern, cm, path, trace, res, str, made, sm, gcost, pairs>>

ToPathWithCosts ==
    /\ call.name \in {"to_path", "verify"}
    /\ trace' = to_path_with_costs(c, cm)
    /\ call' = Called("to_path_with_costs")
    /\ UNCHANGED <<c, text, pattern, cm, path, walk, res, str, made, sm, gcost, pairs>>

(***************************************************************************)
(* The path and the cost trace of any Cigar of valid elements.             *)
(***************************************************************************)
InitTrace ==
    /\ c \in CigarsUpTo(MaxBases)
    /\ cm \in CostModels
    /\ text = <<>> /\ pattern = <<>>
    /\ path = <<>> /\ walk = <<>> /\ trace = <<>> /\ res = NoRes
    /\ str = <<>> /\ made = NoRes
    /\ sm = NoRes /\ gcost = NoRes /\ pairs = NoRes
    /\ call = Called("cigar")

NextTrace == ToPath \/ ToPathWithCosts

SpecTrace == InitTrace /\ [][NextTrace]_vars

(***************************************************************************)
(* C10.  to_path_with_costs returns the positions of to_path, starts with  *)
(* cost 0, and reports after each base: the unchanged running cost for a   *)
(* Match base; the running cost plus cm.sub for a Sub base; for the k-th   *)
(* base of an Ins or Del run, the cost at the start of the run plus        *)
(* cm.open + k * cm.extend, so that a run of length L raises the cost by   *)
(* cm.open + L * cm.extend, the open cost counted once.                    *)
(***************************************************************************)
\* The bases before element e, and the element a base belongs to.
RECURSIVE BasesBefore(_, _)
BasesBefore(ops, e) == IF e <= 1 THEN 0 ELSE BasesBefore(ops, e - 1) + ops[e - 1].cnt
ElemOfBase(ops, n) ==
    CHOOSE e \in 1..Len(ops) :
        BasesBefore(ops, e) < n /\ n <= BasesBefore(ops, e) + ops[e].cnt

C10_TraceCosts ==
    trace # <<>> =>
        /\ [n \in 1..Len(trace) |-> trace[n].pos] = walk
        /\ trace[1].cost = 0
        /\ Len(trace) = Total(c) + 1
        /\ \A n \in 1..Total(c) :
               LET e == ElemOfBase(c, n)
                   k == n - BasesBefore(c, e)
                   before == trace[n].cost
                   after == trace[n + 1].cost
                   runStart == trace[BasesBefore(c, e) + 1].cost
               IN CASE c[e].op = "Match" -> after = before
                    [] c[e].op = "Sub" -> after = before + cm.sub
                    [] OTHER -> after = runStart + cm.open + k * cm.extend
        /\ \A e \in 1..Len(c) :
               c[e].op \in {"Ins", "Del"} =>
                   trace[BasesBefore(c, e) + c[e].cnt + 1].cost
                       = trace[BasesBefore(c, e) + 1].cost + cm.open + c[e].cnt * cm.extend

\* The trace of a Cigar with a gap run of two bases under affine costs,
\* after a substitution, has been computed.
C10_Witness ==
    /\ trace # <<>>
    /\ cm.open > 0
    /\ Len(c) = 2
    /\ c[1].op = "Sub"
    /\ c[2].op \in {"Ins", "Del"} /\ c[2].cnt = 2

(***************************************************************************)
(* C11.  The path of to_path starts at (0,0), has one point per base plus  *)
(* the start, steps by the delta of the op of each base (Match and Sub     *)
(* (1,1), Del (1,0), Ins (0,1)), and ends at the sum over the elements of  *)
(* delta(op) * count.                                                      *)
(***************************************************************************)
LegalDelta(op) ==
    CASE op \in {"Match", "Sub"} -> <<1, 1>>
      [] op = "Del" -> <<1, 0>>
      [] op = "Ins" -> <<0, 1>>

\* The bases of the elements of ops whose op is in S.
RECURSIVE CountOf(_, _)
CountOf(ops, S) ==
    IF ops = <<>> THEN 0
    ELSE (IF ops[1].op \in S THEN ops[1].cnt ELSE 0) + CountOf(Tail(ops), S)

C11_PathConsistency ==
    walk # <<>> =>
        /\ walk[1] = <<0, 0>>
        /\ Len(walk) = Total(c) + 1
        /\ \A n \in 1..Total(c) :
               <<walk[n + 1][1] - walk[n][1], walk[n + 1][2] - walk[n][2]>>
                   = LegalDelta(c[ElemOfBase(c, n)].op)
        /\ Last(walk) = <<CountOf(c, {"Match", "Sub", "Del"}),
                          CountOf(c, {"Match", "Sub", "Ins"})>>

\* The path of Match, Del, Ins has been computed: (0,0), (1,1), (2,1), (2,2).
C11_Witness ==
    /\ c = <<Elem("Match", 1), Elem("Del", 1), Elem("Ins", 1)>>
    /\ walk = <<<<0, 0>>, <<1, 1>>, <<2, 1>>, <<2, 2>>>>

(***************************************************************************)
(* ScoreModel.                                                             *)
(***************************************************************************)
OFFSET == 1

from_costs_extend_without_offset(m) ==
    LET factor == IF m.sub > 2 /\ m.extend > 1 THEN 1
                  ELSE IF m.sub = 1 THEN 3
                  ELSE 2
    IN [match |-> OFFSET * 2,
        sub |-> (-m.sub) * factor + OFFSET * 2,
        open |-> (-m.open) * factor,
        extend |-> (-m.extend) * factor,
        factor |-> factor]

from_costs(m) ==
    LET factor == IF m.sub > 2 /\ m.extend > 1 THEN 1
                  ELSE IF m.sub = 1 THEN 3
                  ELSE 2
    IN [match |-> OFFSET * 2,
        sub |-> (-m.sub) * factor + OFFSET * 2,
        open |-> (-m.open) * factor,
        extend |-> (-m.extend) * factor + OFFSET,
        factor |-> factor]

\* i32 % and / for a divisor b > 0: the quotient truncates towards zero and
\* the remainder has the sign of the dividend.
RemI32(a, b) == IF a >= 0 THEN a % b ELSE -((-a) % b)
DivI32(a, b) == IF a >= 0 THEN a \div b ELSE -((-a) \div b)

\* Panic stands for the failed assert!.
global_cost(smodel, score, a_len, b_len) ==
    LET path_len == a_len + b_len
        s == (-score) + path_len * OFFSET
    IN IF RemI32(s, smodel.factor) # 0
       THEN Panic("assertion failed: s % self.factor == 0")
       ELSE Ok(DivI32(s, smodel.factor))

(***************************************************************************)
(* A score model derived from a cost model, and the cost recovered from    *)
(* the score an aligner reports for two sequences.  The Cigar c is the     *)
(* global alignment of the two sequences, whose lengths it covers.         *)
(***************************************************************************)
\* Cost models with sub > 0, open >= 0, extend > 0, of every factor.
ScoreCostModels == {CostModel(s, o, e) : s \in 1..4, o \in 0..2, e \in 1..3}

\* The scores an aligner may report.
ScoreRange == (-14 * MaxBases)..(2 * MaxBases)

InitScore ==
    /\ c \in CigarsUpTo(MaxBases)
    /\ cm \in ScoreCostModels
    /\ text = <<>> /\ pattern = <<>>
    /\ path = <<>> /\ walk = <<>> /\ trace = <<>> /\ res = NoRes
    /\ str = <<>> /\ made = NoRes
    /\ sm = NoRes /\ gcost = NoRes /\ pairs = NoRes
    /\ call = Called("alignment")

FromCosts ==
    /\ call.name = "alignment"
    /\ sm' = from_costs(cm)
    /\ call' = Called("from_costs")
    /\ UNCHANGED <<c, text, pattern, cm, path, walk, trace, res, str, made, gcost, pairs>>

GlobalCost ==
    \E score \in ScoreRange :
        /\ call.name = "from_costs"
        /\ gcost' = global_cost(sm, score, EndPos(c)[1], EndPos(c)[2])
        /\ call' = [name |-> "global_cost", op |-> "-", cnt |-> score]
        /\ UNCHANGED <<c, text, pattern, cm, path, walk, trace, res, str, made, sm, pairs>>

NextScore == FromCosts \/ GlobalCost

SpecScore == InitScore /\ [][NextScore]_vars

(***************************************************************************)
(* C12.  For a cost model with sub > 0, open >= 0, extend > 0 and a global *)
(* alignment of m Match bases, s Sub bases and gap runs of lengths         *)
(* L1..Ln: when the score handed to global_cost is the alignment's score   *)
(* under from_costs(cm), the assertion does not fire and the result is the *)
(* alignment's cost under cm, s * cm.sub + sum of (cm.open + Li *          *)
(* cm.extend).                                                             *)
(***************************************************************************)
GapRuns == {i \in 1..Len(c) : c[i].op \in {"Ins", "Del"}}

\* The sum over the gap runs from element i on of open + length * extend.
RECURSIVE GapRunSum(_, _, _)
GapRunSum(i, open, extend) ==
    IF i > Len(c) THEN 0
    ELSE (IF i \in GapRuns THEN open + c[i].cnt * extend ELSE 0)
           + GapRunSum(i + 1, open, extend)

AlignScore ==
    CountOf(c, {"Match"}) * sm.match + CountOf(c, {"Sub"}) * sm.sub
        + GapRunSum(1, sm.open, sm.extend)

AlignCost == CountOf(c, {"Sub"}) * cm.sub + GapRunSum(1, cm.open, cm.extend)

C12_GlobalCostRecoversCost ==
    (call.name = "global_cost" /\ call.cnt = AlignScore)
        => gcost = Ok(AlignCost)

\* The cost of an alignment with a match, a substitution and a gap has been
\* recovered under a score model of factor 3 with an open cost.
C12_Witness ==
    /\ call.name = "global_cost" /\ call.cnt = AlignScore
    /\ gcost.kind = "Ok"
    /\ sm.factor = 3 /\ cm.open > 0
    /\ CountOf(c, {"Match"}) = 1 /\ CountOf(c, {"Sub"}) = 1 /\ GapRuns # {}

(***************************************************************************)
(* resolve_matches and from_path.                                          *)
(***************************************************************************)
\* The Match arm's loop: k more bases from pos, pushed onto ops.  An index
\* past the end of text or pattern panics.
RECURSIVE ResolveRun(_, _, _, _, _)
ResolveRun(ops, pos, k, t, p) ==
    IF k <= 0 THEN [kind |-> "Ok", ops |-> ops, pos |-> pos]
    ELSE IF ~(pos[1] < Len(t) /\ pos[2] < Len(p)) THEN Panic("index out of bounds")
    ELSE ResolveRun(push(ops, IF t[pos[1] + 1] = p[pos[2] + 1] THEN "Match" ELSE "Sub"),
                    PosAdd(pos, delta("Match")), k - 1, t, p)

\* The loop with a Sub element leaving pos where it was.
RECURSIVE ResolveFromSubStays(_, _, _, _, _, _)
ResolveFromSubStays(elems, i, pos, ops, t, p) ==
    IF i > Len(elems) THEN OkCigar(ops)
    ELSE IF elems[i].op = "Invalid" THEN Panic("Invalid delta")
    ELSE IF elems[i].op = "Match"
    THEN LET r == ResolveRun(ops, pos, elems[i].cnt, t, p)
         IN IF r.kind = "Panic" THEN r
            ELSE ResolveFromSubStays(elems, i + 1, r.pos, r.ops, t, p)
    ELSE ResolveFromSubStays(elems, i + 1,
                     IF elems[i].op = "Sub" THEN pos
                     ELSE PosAdd(pos, PosMul(delta(elems[i].op), elems[i].cnt)),
                     push_elem(ops, elems[i]), t, p)

\* The loop over the element stream, from element i on.  An element whose
\* op is "Invalid" is one the stream panics on when it is asked for it.
RECURSIVE ResolveFrom(_, _, _, _, _, _)
ResolveFrom(elems, i, pos, ops, t, p) ==
    IF i > Len(elems) THEN OkCigar(ops)
    ELSE IF elems[i].op = "Invalid" THEN Panic("Invalid delta")
    ELSE IF elems[i].op = "Match"
    THEN LET r == ResolveRun(ops, pos, elems[i].cnt, t, p)
         IN IF r.kind = "Panic" THEN r
            ELSE ResolveFrom(elems, i + 1, r.pos, r.ops, t, p)
    ELSE ResolveFrom(elems, i + 1,
                     PosAdd(pos, PosMul(delta(elems[i].op), elems[i].cnt)),
                     push_elem(ops, elems[i]), t, p)

resolve_matches(elems, t, p) == ResolveFrom(elems, 1, <<0, 0>>, <<>>, t, p)

\* tuple_windows mapped to unit elements.
PathElems(pth) ==
    [k \in 1..(Len(pth) - 1) |-> Elem(from_delta(PosSub(pth[k + 1], pth[k])), 1)]

from_path(t, p, pth) ==
    IF pth = <<>> THEN Panic("index out of bounds")
    ELSE IF pth[1] # <<0, 0>> THEN Panic("Path must start at (0,0)!")
    ELSE resolve_matches(PathElems(pth), t, p)

(***************************************************************************)
(* A Cigar made from a path over two sequences, and walked back.           *)
(***************************************************************************)
\* The steps paths are made of: the three deltas and one that is none.
PathSteps == {<<1, 1>>, <<1, 0>>, <<0, 1>>, <<0, 0>>}

\* The paths from a point, of at most n steps.
RECURSIVE PathsFrom(_, _)
PathsFrom(pos, n) ==
    {<<pos>>} \cup
    (IF n = 0 THEN {}
     ELSE UNION {{<<pos>> \o r : r \in PathsFrom(PosAdd(pos, d), n - 1)} : d \in PathSteps})

InitPath ==
    /\ text \in SeqsUpTo(Alphabet, MaxSeqLen)
    /\ pattern \in SeqsUpTo(Alphabet, MaxSeqLen)
    /\ path \in PathsFrom(<<0, 0>>, MaxSteps) \cup PathsFrom(<<0, 1>>, 1)
    /\ cm \in CostModels
    /\ c = <<>>
    /\ walk = <<>> /\ trace = <<>> /\ res = NoRes
    /\ str = <<>> /\ made = NoRes
    /\ sm = NoRes /\ gcost = NoRes /\ pairs = NoRes
    /\ call = Called("path")

FromPath ==
    /\ call.name = "path"
    /\ made' = from_path(text, pattern, path)
    /\ c' = IF made'.kind = "Ok" THEN made'.ops ELSE c
    /\ call' = Called(IF made'.kind = "Ok" THEN "from_path" ELSE "panic")
    /\ UNCHANGED <<text, pattern, cm, path, walk, trace, res, str, sm, gcost, pairs>>

NextPath == FromPath \/ ToPath \/ Verify \/ ToPathWithCosts

SpecPath == InitPath /\ [][NextPath]_vars

(***************************************************************************)
(* C7.  For a path from (0,0) that stays within (len(text), len(pattern))  *)
(* and whose steps are (1,1), (1,0) or (0,1), from_path returns the        *)
(* coalesced run-length encoding of the step ops: Ins for (0,1), Del for   *)
(* (1,0), and for a (1,1) step leaving (i, j) Match if text[i] =           *)
(* pattern[j], else Sub; and to_path of the result is the input path.      *)
(***************************************************************************)
ValidPath ==
    /\ path # <<>>
    /\ path[1] = <<0, 0>>
    /\ \A k \in 1..Len(path) : path[k][1] <= Len(text) /\ path[k][2] <= Len(pattern)
    /\ \A k \in 1..(Len(path) - 1) :
           PosSub(path[k + 1], path[k]) \in {<<1, 1>>, <<1, 0>>, <<0, 1>>}

StepOp(k) ==
    LET d == PosSub(path[k + 1], path[k])
    IN CASE d = <<0, 1>> -> "Ins"
         [] d = <<1, 0>> -> "Del"
         [] d = <<1, 1>> ->
                IF text[path[k][1] + 1] = pattern[path[k][2] + 1] THEN "Match" ELSE "Sub"

StepElems == [k \in 1..(Len(path) - 1) |-> Elem(StepOp(k), 1)]

C7_FromPath ==
    (ValidPath /\ made # NoRes) =>
        /\ made = OkCigar(MergeRuns(StepElems))
        /\ c = made.ops
        /\ walk # <<>> => walk = path

\* A path with a match, a substitution and a gap has been encoded and
\* walked back.
C7_Witness ==
    /\ ValidPath /\ made # NoRes /\ walk # <<>>
    /\ Len(path) = 4
    /\ \E k \in 1..3 : StepOp(k) = "Match"
    /\ \E k \in 1..3 : StepOp(k) = "Sub"
    /\ \E k \in 1..3 : StepOp(k) \in {"Ins", "Del"}

(***************************************************************************)
(* to_char_pairs.                                                          *)
(***************************************************************************)
\* Sequences over both cases of a letter and another letter.
CaseAlphabet == {"a", "A", "b"}

\* The u8 value of a character.
Byte(ch) == CASE ch = "a" -> 97 [] ch = "A" -> 65 [] ch = "b" -> 98

\* u8 ^, & and !, bit by bit over n bits.
RECURSIVE BitXor(_, _, _)
BitXor(x, y, n) ==
    IF n = 0 THEN 0
    ELSE (((x % 2) + (y % 2)) % 2) + 2 * BitXor(x \div 2, y \div 2, n - 1)

RECURSIVE BitAnd(_, _, _)
BitAnd(x, y, n) ==
    IF n = 0 THEN 0
    ELSE ((x % 2) * (y % 2)) + 2 * BitAnd(x \div 2, y \div 2, n - 1)

BitNot(x) == 255 - x

fix_case == BitNot(BitXor(Byte("A"), Byte("a"), 8))

\* CigarOpChars.
CharPair(op, chars) == [op |-> op, chars |-> chars]

OkPairs(out) == [kind |-> "Ok", pairs |-> out]

\* One base of an element at pos: the pair it emits, or the panic of an
\* index past the end or of the failed assert_ne!.
CharPairAt(op, pos, t, p) ==
    LET inT == pos[1] < Len(t)
        inP == pos[2] < Len(p)
    IN CASE op = "Match" ->
              IF ~inT THEN Panic("index out of bounds")
              ELSE CharPair("Match", <<t[pos[1] + 1]>>)
         [] op = "Sub" ->
              IF ~(inT /\ inP) THEN Panic("index out of bounds")
              ELSE IF BitAnd(Byte(t[pos[1] + 1]), fix_case, 8)
                        = BitAnd(Byte(p[pos[2] + 1]), fix_case, 8)
              THEN Panic("assertion left != right failed")
              ELSE CharPair("Sub", <<t[pos[1] + 1], p[pos[2] + 1]>>)
         [] op = "Del" ->
              IF ~inT THEN Panic("index out of bounds")
              ELSE CharPair("Del", <<t[pos[1] + 1]>>)
         [] op = "Ins" ->
              IF ~inP THEN Panic("index out of bounds")
              ELSE CharPair("Ins", <<p[pos[2] + 1]>>)

\* The loops over the elements and their bases: k more bases of element i.
RECURSIVE CharPairsFrom(_, _, _, _, _, _, _)
CharPairsFrom(ops, i, k, pos, out, t, p) ==
    IF i > Len(ops) THEN OkPairs(out)
    ELSE IF k <= 0
    THEN CharPairsFrom(ops, i + 1, IF i < Len(ops) THEN ops[i + 1].cnt ELSE 0,
                       pos, out, t, p)
    ELSE LET cp == CharPairAt(ops[i].op, pos, t, p)
         IN IF "kind" \in DOMAIN cp THEN cp
            ELSE CharPairsFrom(ops, i, k - 1, PosAdd(pos, delta(ops[i].op)),
                               Append(out, cp), t, p)

to_char_pairs(ops, t, p) ==
    CharPairsFrom(ops, 1, IF ops = <<>> THEN 0 ELSE ops[1].cnt, <<0, 0>>, <<>>, t, p)

(***************************************************************************)
(* An element stream resolved against two sequences, resolved again, and   *)
(* turned into character pairs.  The Cigar c is the stream.                *)
(***************************************************************************)
MaxResolveLen == 2

InitResolve ==
    /\ c \in CigarsUpTo(MaxBases)
    /\ text \in SeqsUpTo(CaseAlphabet, MaxResolveLen)
    /\ pattern \in SeqsUpTo(CaseAlphabet, MaxResolveLen)
    /\ cm = unit
    /\ path = <<>> /\ walk = <<>> /\ trace = <<>> /\ res = NoRes
    /\ str = <<>> /\ made = NoRes
    /\ sm = NoRes /\ gcost = NoRes /\ pairs = NoRes
    /\ call = Called("stream")

ResolveMatches ==
    /\ call.name = "stream"
    /\ made' = resolve_matches(c, text, pattern)
    /\ call' = Called(IF made'.kind = "Ok" THEN "resolve_matches" ELSE "panic")
    /\ UNCHANGED <<c, text, pattern, cm, path, walk, trace, res, str, sm, gcost, pairs>>

\* resolve_matches on the elements of the Cigar the first call returned.
ResolveAgain ==
    /\ call.name = "resolve_matches"
    /\ res' = resolve_matches(made.ops, text, pattern)
    /\ call' = Called("resolve_again")
    /\ UNCHANGED <<c, text, pattern, cm, path, walk, trace, str, made, sm, gcost, pairs>>

ToCharPairs ==
    /\ call.name = "resolve_matches"
    /\ pairs' = to_char_pairs(made.ops, text, pattern)
    /\ call' = Called("to_char_pairs")
    /\ UNCHANGED <<c, text, pattern, cm, path, walk, trace, res, str, made, sm, gcost>>

NextResolve == ResolveMatches \/ ResolveAgain \/ ToCharPairs

SpecResolve == InitResolve /\ [][NextResolve]_vars

(***************************************************************************)
(* C13.  resolve_matches is idempotent: for a stream whose deltas stay     *)
(* within text and pattern, resolve_matches returns a Cigar r, and         *)
(* resolve_matches on r's elements returns r again.                        *)
(***************************************************************************)
StaysWithin == EndPos(c)[1] <= Len(text) /\ EndPos(c)[2] <= Len(pattern)

C13_ResolveIdempotent ==
    StaysWithin =>
        /\ made # NoRes => made.kind = "Ok"
        /\ res # NoRes => res = made

\* A Match run that the first call split into a substitution and a match
\* has been resolved again.
C13_Witness ==
    /\ StaysWithin /\ res # NoRes
    /\ c = <<Elem("Match", 2)>>
    /\ made = OkCigar(<<Elem("Sub", 1), Elem("Match", 1)>>)

(***************************************************************************)
(* C15.  For a stream of Match, Ins and Del runs only that ends at         *)
(* (len(text), len(pattern)), over an alphabet with both cases of a        *)
(* letter, to_char_pairs on the resolved Cigar returns without a failed    *)
(* assertion, and emits per base: Match(t) for an aligned base with        *)
(* t = p, Sub(t, p) for one with t # p (strict byte equality), Del(t) for  *)
(* a Del base and Ins(p) for an Ins base.                                  *)
(***************************************************************************)
ExpectedPair(n) ==
    LET t == IF BasePos(n)[1] < Len(text) THEN text[BasePos(n)[1] + 1] ELSE "-"
        p == IF BasePos(n)[2] < Len(pattern) THEN pattern[BasePos(n)[2] + 1] ELSE "-"
    IN CASE BaseOp(n) = "Match" ->
              IF t = p THEN CharPair("Match", <<t>>) ELSE CharPair("Sub", <<t, p>>)
         [] BaseOp(n) = "Del" -> CharPair("Del", <<t>>)
         [] BaseOp(n) = "Ins" -> CharPair("Ins", <<p>>)

C15_CharPairsStrict ==
    ( /\ \A i \in 1..Len(c) : c[i].op \in {"Match", "Ins", "Del"}
      /\ EndPos(c) = Target(text, pattern)
      /\ pairs # NoRes )
        => pairs = OkPairs([n \in 1..Total(c) |-> ExpectedPair(n)])

(***************************************************************************)
(* C14.  For a path from (0,0) to (len(text), len(pattern)) whose steps    *)
(* are (1,1), (1,0) or (0,1), verify on the Cigar from_path returns is Ok, *)
(* and its cost is the cost of the last entry of to_path_with_costs on     *)
(* that Cigar.                                                             *)
(***************************************************************************)
C14_FromPathVerifies ==
    (ValidPath /\ Last(path) = Target(text, pattern) /\ res # NoRes) =>
        /\ res.kind = "Ok"
        /\ trace # <<>> => res.cost = Last(trace).cost

(***************************************************************************)
(* C9.  In every Cigar reached by builder calls from the empty Cigar or    *)
(* from from_ops, no two adjacent stored elements have the same op; and    *)
(* each push / push_elem / push_matches call either adds its count to the  *)
(* last element (when that element has the pushed op) or appends a new     *)
(* element, leaving every earlier element as it was.                       *)
(***************************************************************************)
MergedOrAppended(old, new, op, cnt) ==
    IF old # <<>> /\ Last(old).op = op
    THEN /\ Len(new) = Len(old)
         /\ Front(new) = Front(old)
         /\ Last(new) = Elem(op, Last(old).cnt + cnt)
    ELSE /\ Len(new) = Len(old) + 1
         /\ Front(new) = old
         /\ Last(new) = Elem(op, cnt)

C9_Coalesced ==
    /\ [](NoAdjacentSameOp(c))
    /\ [][call'.name \in {"push", "push_elem", "push_matches"}
            => MergedOrAppended(c, c', call'.op, call'.cnt)]_vars

\* A push has merged into the last run: the Cigar holds, after another run,
\* a run longer than any single call pushes.
C9_Witness ==
    /\ call.name \in {"push", "push_elem", "push_matches"}
    /\ Len(c) >= 2
    /\ Last(c).cnt > MaxPushCnt

====
